---- MODULE Spec2Model ----
(***************************************************************************)
(* Kernel Health Monitor: the metrics collector (core/monitor.py), the     *)
(* health classifier (core/analyzer.py) and the 2-second broadcast loop    *)
(* with the session endpoints (app.py).                                    *)
(*                                                                         *)
(* Python dicts are functions from key strings; None and a raised          *)
(* exception are tagged records, so that every value compares with every   *)
(* other.  Readings are integers (whole degrees, whole percent).           *)
(***************************************************************************)
EXTENDS Integers, Sequences, FiniteSets, TLC

VARIABLES
    pc,               \* position of the monitoring_loop task
    w,                \* monitor.py module global: the WMI handle, or None
    host,             \* what the OS calls of this cycle's get_system_metrics answered
    current_metrics,  \* monitoring_loop local
    analysis_result,  \* monitoring_loop local
    full_data,        \* monitoring_loop local
    emitted,          \* the record sio.emit delivered in this cycle, or None
    cycle_error,      \* TRUE when this cycle ran the except branch
    active_sessions,  \* app.py global {user_id: True/False}
    am_args,          \* arguments of a direct analyze_metric call
    am_result,        \* its return value, or None
    prev_kernel       \* cumulative kernel counters the host reported in the
                      \* cycle before, kept only where the host is taken to
                      \* count monotonically (SpecMonotone)

vars == <<pc, w, host, current_metrics, analysis_result, full_data, emitted,
          cycle_error, active_sessions, am_args, am_result, prev_kernel>>

loopVars == <<pc, w, host, current_metrics, analysis_result, full_data,
              emitted, cycle_error>>

(* ---------------------------- bounds ----------------------------------- *)
NumUsers == 2
MaxValue == 4

Users == 1..NumUsers

(* ------------------------ Python values -------------------------------- *)
None == [py |-> "None"]
Exception == [py |-> "Exception"]
NotQueried == [py |-> "NotQueried"]
Returns(v) == [py |-> "value", value |-> v]

\* Python truthiness of a dict-or-None, as used by `if current_metrics.get('gpu')`
Truthy(x) == x # None /\ DOMAIN x # {}

(* ------------------------ analyzer.py ---------------------------------- *)
TEMP_WARNING == 80
TEMP_CRITICAL == 90
LOAD_WARNING == 80
LOAD_CRITICAL == 95
DPC_CRITICAL == 500000
CONTEXT_SWITCH_CRITICAL == 1000000

analyze_metric_strict(metric_name, value, warning_val, critical_val) ==
    IF value > critical_val
    THEN [status |-> "THREAT",
          message |-> <<"CRITICAL: ", metric_name, " is too high (", value,
                        "). Immediate action required!">>]
    ELSE IF value > warning_val
    THEN [status |-> "WARNING",
          message |-> <<"HIGH: ", metric_name,
                        " is elevated. Check background tasks.">>]
    ELSE [status |-> "SAFE", message |-> <<"Normal ", metric_name, " usage.">>]

analyze_metric(metric_name, value, warning_val, critical_val) ==
    IF value >= critical_val
    THEN [status |-> "THREAT",
          message |-> <<"CRITICAL: ", metric_name, " is too high (", value,
                        "). Immediate action required!">>]
    ELSE IF value >= warning_val
    THEN [status |-> "WARNING",
          message |-> <<"HIGH: ", metric_name,
                        " is elevated. Check background tasks.">>]
    ELSE [status |-> "SAFE", message |-> <<"Normal ", metric_name, " usage.">>]

\* 1. CPU Analysis
CpuAnalysis(m) ==
    [cpu_temp |-> analyze_metric("CPU Temperature", m.cpu.temperature,
                                 TEMP_WARNING, TEMP_CRITICAL),
     cpu_usage |-> analyze_metric("CPU Usage", m.cpu.usage_percent,
                                  LOAD_WARNING, LOAD_CRITICAL)]

\* 2. GPU Analysis: entries only when the sample's gpu is truthy
GpuAnalysisDefaultSafe(m) ==
    IF Truthy(m.gpu)
    THEN [gpu_temp |-> analyze_metric("GPU Temperature", m.gpu.temp,
                                      TEMP_WARNING, TEMP_CRITICAL),
          gpu_usage |-> analyze_metric("GPU Usage", m.gpu.usage,
                                       LOAD_WARNING, LOAD_CRITICAL)]
    ELSE [gpu_temp |-> analyze_metric("GPU Temperature", 0,
                                      TEMP_WARNING, TEMP_CRITICAL),
          gpu_usage |-> analyze_metric("GPU Usage", 0,
                                       LOAD_WARNING, LOAD_CRITICAL)]

GpuAnalysis(m) ==
    IF Truthy(m.gpu)
    THEN [gpu_temp |-> analyze_metric("GPU Temperature", m.gpu.temp,
                                      TEMP_WARNING, TEMP_CRITICAL),
          gpu_usage |-> analyze_metric("GPU Usage", m.gpu.usage,
                                       LOAD_WARNING, LOAD_CRITICAL)]
    ELSE << >>

\* 3. Kernel/Stall Analysis: a short-circuit chain
KernelStallsEntry(dpcs) ==
    [kernel_stalls |->
        [status |-> "THREAT",
         message |-> <<"CRITICAL KERNEL STALLS: High DPC count (", dpcs,
                       "). Drivers are stalling.">>]]

KernelCtxEntry(ctx_switches) ==
    [kernel_ctx |->
        [status |-> "WARNING",
         message |-> <<"WARNING: High context switching (", ctx_switches, ").">>]]

KernelStatusEntry ==
    [kernel_status |-> [status |-> "SAFE", message |-> <<"Kernel metrics nominal.">>]]

KernelAnalysisCtxFirst(m) ==
    IF m.kernel.context_switches >= CONTEXT_SWITCH_CRITICAL
    THEN KernelCtxEntry(m.kernel.context_switches)
    ELSE IF m.kernel.dpcs_stalls >= DPC_CRITICAL
         THEN KernelStallsEntry(m.kernel.dpcs_stalls)
         ELSE KernelStatusEntry

KernelAnalysisIndependent(m) ==
    (IF m.kernel.dpcs_stalls >= DPC_CRITICAL
     THEN KernelStallsEntry(m.kernel.dpcs_stalls) ELSE << >>)
    @@ (IF m.kernel.context_switches >= CONTEXT_SWITCH_CRITICAL
        THEN KernelCtxEntry(m.kernel.context_switches) ELSE << >>)
    @@ (IF m.kernel.dpcs_stalls < DPC_CRITICAL
           /\ m.kernel.context_switches < CONTEXT_SWITCH_CRITICAL
        THEN KernelStatusEntry ELSE << >>)

KernelAnalysis(m) ==
    IF m.kernel.dpcs_stalls >= DPC_CRITICAL
    THEN KernelStallsEntry(m.kernel.dpcs_stalls)
    ELSE IF m.kernel.context_switches >= CONTEXT_SWITCH_CRITICAL
         THEN KernelCtxEntry(m.kernel.context_switches)
         ELSE KernelStatusEntry

\* 4. Determine Overall Threat Level
OverallStatusWarningFirst(analysis_results) ==
    LET statuses == {analysis_results[k].status : k \in DOMAIN analysis_results}
    IN  IF "WARNING" \in statuses THEN "WARNING"
        ELSE IF "THREAT" \in statuses THEN "THREAT"
        ELSE "SAFE"

OverallStatus(analysis_results) ==
    LET statuses == {analysis_results[k].status : k \in DOMAIN analysis_results}
    IN  IF "THREAT" \in statuses THEN "THREAT"
        ELSE IF "WARNING" \in statuses THEN "WARNING"
        ELSE "SAFE"

AnalysisDict(overall_status, analysis_results) ==
    [status |-> overall_status, details |-> analysis_results]

get_health_status(m) ==
    LET analysis_results == CpuAnalysis(m) @@ GpuAnalysis(m) @@ KernelAnalysis(m)
    IN  AnalysisDict(OverallStatus(analysis_results), analysis_results)

(* ------------------------ monitor.py ----------------------------------- *)
\* Answers the host gives to the calls of get_system_metrics.  Temperatures
\* are whole degrees; WMI reports tenths of a Kelvin and the drawn readings
\* are whole degrees Celsius, so that (kelvin - 2732) / 10.0 is exact.  The GPU
\* load is drawn in hundredths (GPUtil reports utilisation% / 100).
CpuPercentReadings == {50, 80, 95}
CoreTempReadings == {80, 95}
KelvinReadings == {3622}
GpuLoadHundredths == {50, 95}
GpuTempReadings == {89, 90}
CtxSwitchReadings == {0, CONTEXT_SWITCH_CRITICAL}
SoftInterruptReadings == {0, DPC_CRITICAL - 1, DPC_CRITICAL}
InterruptReadings == {7}
PidLists == {<<1, 4, 88>>}
ClockReadings == {1700000000}

\* psutil.sensors_temperatures(): raises, or a dict that may hold 'coretemp'
SensorAnswers ==
    {Exception, Returns(<< >>), Returns([coretemp |-> << >>])}
    \cup {Returns([coretemp |-> <<[current |-> t]>>]) : t \in CoreTempReadings}

\* w.MSAcpi_ThermalZoneTemperature(): raises, or a list of zones
ThermalAnswers ==
    {Exception, Returns(<< >>)}
    \cup {Returns(<<[CurrentTemperature |-> k]>>) : k \in KelvinReadings}

\* GPUtil.getGPUs(): raises, or a list of GPUs
GpuAnswers ==
    {Exception, Returns(<< >>)}
    \cup {Returns(<<[name |-> "GPU0", load |-> l, temperature |-> t]>>) :
            l \in GpuLoadHundredths, t \in GpuTempReadings}

CpuStatsAnswers ==
    {Exception}
    \cup {Returns([ctx_switches |-> c, interrupts |-> i, soft_interrupts |-> s]) :
            c \in CtxSwitchReadings, i \in InterruptReadings,
            s \in SoftInterruptReadings}

CpuPercentAnswers == {Exception} \cup {Returns(u) : u \in CpuPercentReadings}
PidsAnswers == {Exception} \cup {Returns(p) : p \in PidLists}
ClockAnswers == {Returns(t) : t \in ClockReadings}

\* lines 48-62: does the temperature block consult WMI?
ConsultsThermal(wmi, sensors) ==
    /\ sensors # Exception
    /\ "coretemp" \notin DOMAIN sensors.value
    /\ wmi # None

\* lines 48-62: what the temperature block leaves in cpu_temp (Returns), or the
\* exception that leaves the block; 0 whenever nothing readable is found
CpuTempEscapes(wmi, sensors, thermal) ==
    IF sensors = Exception THEN Exception
    ELSE IF "coretemp" \in DOMAIN sensors.value
    THEN IF Len(sensors.value.coretemp) = 0 THEN Exception
         ELSE Returns(sensors.value.coretemp[1].current)
    ELSE IF wmi # None
    THEN IF thermal = Exception THEN Exception
         ELSE IF Len(thermal.value) > 0
              THEN Returns((thermal.value[1].CurrentTemperature - 2732) \div 10)
              ELSE Returns(0)
    ELSE Returns(0)

CpuTemp(wmi, sensors, thermal) ==
    IF sensors = Exception THEN Returns(0)
    ELSE IF "coretemp" \in DOMAIN sensors.value
    THEN IF Len(sensors.value.coretemp) = 0 THEN Returns(0)  \* IndexError, swallowed
         ELSE Returns(sensors.value.coretemp[1].current)
    ELSE IF wmi # None
    THEN IF thermal = Exception THEN Returns(0)
         ELSE IF Len(thermal.value) > 0
              THEN Returns((thermal.value[1].CurrentTemperature - 2732) \div 10)
              ELSE Returns(0)
    ELSE Returns(0)

\* lines 64-75: what the GPU block leaves in gpu_data (Returns), or the
\* exception that leaves the block; None when the query raises or finds no GPU
GpuDataEscapes(gpus) ==
    IF gpus = Exception THEN Exception
    ELSE IF Len(gpus.value) > 0
    THEN Returns([name |-> gpus.value[1].name,
                  usage |-> (gpus.value[1].load * 100) \div 100,
                  temp |-> gpus.value[1].temperature])
    ELSE Returns(None)

GpuData(gpus) ==
    IF gpus = Exception THEN Returns(None)
    ELSE IF Len(gpus.value) > 0
    THEN Returns([name |-> gpus.value[1].name,
                  usage |-> (gpus.value[1].load * 100) \div 100,
                  temp |-> gpus.value[1].temperature])
    ELSE Returns(None)

\* lines 80-93: the metrics dict
MetricsDict(time, cpu_usage, cpu_temp, gpu_data, cpu_stats, pids) ==
    [timestamp |-> time,
     cpu |-> [usage_percent |-> cpu_usage, temperature |-> cpu_temp],
     gpu |-> gpu_data,
     kernel |-> [context_switches |-> cpu_stats.ctx_switches,
                 interrupts |-> cpu_stats.interrupts,
                 dpcs_stalls |-> cpu_stats.soft_interrupts,
                 processes |-> Len(pids)]]

\* The calls are made in source order; a call after a raising, unguarded call
\* is never made and is recorded as NotQueried.
HostAnswers(wmi) ==
    {h \in [cpu_percent : CpuPercentAnswers,
            sensors : SensorAnswers \cup {NotQueried},
            thermal : ThermalAnswers \cup {NotQueried},
            gpus : GpuAnswers \cup {NotQueried},
            cpu_stats : CpuStatsAnswers \cup {NotQueried},
            clock : ClockAnswers \cup {NotQueried},
            pids : PidsAnswers \cup {NotQueried}] :
        IF h.cpu_percent = Exception
        THEN /\ h.sensors = NotQueried /\ h.thermal = NotQueried
             /\ h.gpus = NotQueried /\ h.cpu_stats = NotQueried
             /\ h.clock = NotQueried /\ h.pids = NotQueried
        ELSE /\ h.sensors # NotQueried
             /\ (h.thermal # NotQueried) <=> ConsultsThermal(wmi, h.sensors)
             /\ h.gpus # NotQueried
             /\ h.cpu_stats # NotQueried
             /\ IF h.cpu_stats = Exception
                THEN h.clock = NotQueried /\ h.pids = NotQueried
                ELSE h.clock # NotQueried /\ h.pids # NotQueried}

get_system_metrics(wmi, h) ==
    IF h.cpu_percent = Exception THEN Exception
    ELSE LET cpu_usage == h.cpu_percent.value
             cpu_temp == CpuTemp(wmi, h.sensors, h.thermal)
             gpu_data == GpuData(h.gpus)
         IN  IF cpu_temp = Exception \/ gpu_data = Exception THEN Exception
             ELSE IF h.cpu_stats = Exception THEN Exception
             ELSE IF h.pids = Exception THEN Exception
             ELSE MetricsDict(h.clock.value, cpu_usage, cpu_temp.value,
                              gpu_data.value, h.cpu_stats.value, h.pids.value)

(* ------------------------ app.py --------------------------------------- *)
\* line 49, `while True`: the session check was removed from the loop
LoopConditionSessionGated ==
    \E u \in DOMAIN active_sessions : active_sessions[u]

LoopCondition == TRUE

\* lines 58-61
FullDataSpecNames(metrics, analysis) ==
    [metrics |-> metrics,
     analysis |-> analysis.details @@ [overall_status |-> analysis.status]]

FullData(metrics, analysis) == [metrics |-> metrics, analysis |-> analysis]

\* lines 70-73: `except Exception` logs, and the loop goes on to the sleep
ExceptionKillsTask ==
    /\ pc' = "terminated"
    /\ cycle_error' = TRUE

HandleException ==
    /\ pc' = "sleep"
    /\ cycle_error' = TRUE

NoSessions == << >>

\* psutil.cpu_stats() counts from boot
NoCounters == [ctx_switches |-> 0, soft_interrupts |-> 0]

Init ==
    /\ pc = "not_started"
    /\ w \in {None, [py |-> "WMI"]}
    /\ host = None
    /\ current_metrics = None
    /\ analysis_result = None
    /\ full_data = None
    /\ emitted = None
    /\ cycle_error = FALSE
    /\ active_sessions = NoSessions
    /\ am_args = None
    /\ am_result = None
    /\ prev_kernel = NoCounters

\* startup_event: asyncio.create_task(monitoring_loop())
startup_event ==
    /\ pc = "not_started"
    /\ pc' = "top"
    /\ UNCHANGED <<w, host, current_metrics, analysis_result, full_data,
                   emitted, cycle_error, active_sessions, am_args, am_result, prev_kernel>>

\* lines 49-65: one pass from the top of the loop to the await of sio.emit;
\* no await in between, so asyncio runs it as one step
CycleFetchAnalyze ==
    /\ pc = "top"
    /\ LoopCondition
    /\ host' \in HostAnswers(w)
    /\ get_system_metrics(w, host') # Exception
    /\ current_metrics' = get_system_metrics(w, host')
    /\ analysis_result' = get_health_status(current_metrics')
    /\ full_data' = FullData(current_metrics', analysis_result')
    /\ pc' = "emit"
    /\ UNCHANGED <<w, emitted, cycle_error, active_sessions, am_args, am_result, prev_kernel>>

\* lines 55 and 70-71: get_system_metrics raises, nothing is broadcast
CycleFetchRaises ==
    /\ pc = "top"
    /\ LoopCondition
    /\ host' \in HostAnswers(w)
    /\ get_system_metrics(w, host') = Exception
    /\ HandleException
    /\ UNCHANGED <<w, current_metrics, analysis_result, full_data, emitted,
                   active_sessions, am_args, am_result, prev_kernel>>

\* line 65: the awaited sio.emit returns, the record went to the transport
EmitReturns ==
    /\ pc = "emit"
    /\ emitted' = full_data
    /\ pc' = "sleep"
    /\ UNCHANGED <<w, host, current_metrics, analysis_result, full_data,
                   cycle_error, active_sessions, am_args, am_result, prev_kernel>>

\* lines 65 and 70-71: the awaited sio.emit raises
EmitRaises ==
    /\ pc = "emit"
    /\ HandleException
    /\ UNCHANGED <<w, host, current_metrics, analysis_result, full_data,
                   emitted, active_sessions, am_args, am_result, prev_kernel>>

\* line 73: asyncio.sleep(2) ends and the loop is back at its top.  The locals
\* of the finished pass are dead (each is assigned before it is read).
SleepDone ==
    /\ pc = "sleep"
    /\ pc' = "top"
    /\ host' = None
    /\ current_metrics' = None
    /\ analysis_result' = None
    /\ full_data' = None
    /\ emitted' = None
    /\ cycle_error' = FALSE
    /\ UNCHANGED <<w, active_sessions, am_args, am_result, prev_kernel>>

\* POST /session/start
start_session(user_id) ==
    /\ active_sessions' = [u \in DOMAIN active_sessions \cup {user_id} |->
                              IF u = user_id THEN TRUE ELSE active_sessions[u]]
    /\ UNCHANGED <<pc, w, host, current_metrics, analysis_result, full_data,
                   emitted, cycle_error, am_args, am_result, prev_kernel>>

\* POST /session/stop
stop_session(user_id) ==
    /\ active_sessions' = [u \in DOMAIN active_sessions \cup {user_id} |->
                              IF u = user_id THEN FALSE ELSE active_sessions[u]]
    /\ UNCHANGED <<pc, w, host, current_metrics, analysis_result, full_data,
                   emitted, cycle_error, am_args, am_result, prev_kernel>>

LoopStep ==
    \/ startup_event
    \/ CycleFetchAnalyze
    \/ CycleFetchRaises
    \/ EmitReturns
    \/ EmitRaises
    \/ SleepDone

Next ==
    \/ LoopStep
    \/ \E u \in Users : start_session(u)
    \/ \E u \in Users : stop_session(u)

Spec == Init /\ [][Next]_vars

\* asyncio runs a ready task, the 2-second timer expires, and an awaited
\* sio.emit comes back (by returning or by raising)
FairSpec == Spec /\ WF_vars(LoopStep)

(* ---------------- direct calls of analyze_metric ----------------------- *)
MetricNames == {"CPU Temperature"}

InitAnalyze ==
    /\ pc = "not_started"
    /\ w = None
    /\ host = None
    /\ current_metrics = None
    /\ analysis_result = None
    /\ full_data = None
    /\ emitted = None
    /\ cycle_error = FALSE
    /\ active_sessions = NoSessions
    /\ am_args \in [metric_name : MetricNames, value : 0..MaxValue,
                    warning_val : 0..MaxValue, critical_val : 0..MaxValue]
    /\ am_result = None
    /\ prev_kernel = NoCounters

CallAnalyzeMetric ==
    /\ am_result = None
    /\ am_result' = analyze_metric(am_args.metric_name, am_args.value,
                                   am_args.warning_val, am_args.critical_val)
    /\ UNCHANGED <<pc, w, host, current_metrics, analysis_result, full_data,
                   emitted, cycle_error, active_sessions, am_args, prev_kernel>>

NextAnalyze == CallAnalyzeMetric

SpecAnalyze == InitAnalyze /\ [][NextAnalyze]_vars

(* ---------------- a host whose kernel counters never decrease ---------- *)
\* ctx_switches and soft_interrupts are cumulative since boot: a reading of
\* psutil.cpu_stats() is not below the reading of the cycle before
CountersRead(h) ==
    IF h.cpu_stats \in {NotQueried, Exception} THEN prev_kernel
    ELSE [ctx_switches |-> h.cpu_stats.value.ctx_switches,
          soft_interrupts |-> h.cpu_stats.value.soft_interrupts]

NotDecreased(h) ==
    /\ CountersRead(h).ctx_switches >= prev_kernel.ctx_switches
    /\ CountersRead(h).soft_interrupts >= prev_kernel.soft_interrupts

\* lines 49-65 on such a host
MonotoneFetchAnalyze ==
    /\ pc = "top"
    /\ LoopCondition
    /\ host' \in HostAnswers(w)
    /\ NotDecreased(host')
    /\ get_system_metrics(w, host') # Exception
    /\ current_metrics' = get_system_metrics(w, host')
    /\ analysis_result' = get_health_status(current_metrics')
    /\ full_data' = FullData(current_metrics', analysis_result')
    /\ pc' = "emit"
    /\ UNCHANGED <<w, emitted, cycle_error, active_sessions, am_args, am_result,
                   prev_kernel>>

\* lines 55 and 70-71 on such a host
MonotoneFetchRaises ==
    /\ pc = "top"
    /\ LoopCondition
    /\ host' \in HostAnswers(w)
    /\ NotDecreased(host')
    /\ get_system_metrics(w, host') = Exception
    /\ HandleException
    /\ UNCHANGED <<w, current_metrics, analysis_result, full_data, emitted,
                   active_sessions, am_args, am_result, prev_kernel>>

\* line 73: the sleep ends; the counters of the finished cycle are the ones the
\* next reading is not below
MonotoneSleepDone ==
    /\ pc = "sleep"
    /\ pc' = "top"
    /\ prev_kernel' = CountersRead(host)
    /\ host' = None
    /\ current_metrics' = None
    /\ analysis_result' = None
    /\ full_data' = None
    /\ emitted' = None
    /\ cycle_error' = FALSE
    /\ UNCHANGED <<w, active_sessions, am_args, am_result>>

NextMonotone ==
    \/ startup_event
    \/ MonotoneFetchAnalyze
    \/ MonotoneFetchRaises
    \/ EmitReturns
    \/ EmitRaises
    \/ MonotoneSleepDone
    \/ \E u \in Users : start_session(u)
    \/ \E u \in Users : stop_session(u)

SpecMonotone == Init /\ [][NextMonotone]_vars

(* ======================= properties ==================================== *)
Severity(status) ==
    CASE status = "SAFE" -> 0
      [] status = "WARNING" -> 1
      [] status = "THREAT" -> 2

\* the three-way rule of the threshold table
Classify(value, warning, critical) ==
    IF value < warning THEN "SAFE"
    ELSE IF value < critical THEN "WARNING"
    ELSE "THREAT"

KernelKeys == {"kernel_stalls", "kernel_ctx", "kernel_status"}
GpuKeys == {"gpu_temp", "gpu_usage"}
EntryKeys == {"cpu_temp", "cpu_usage"} \cup GpuKeys \cup KernelKeys

Analysed == analysis_result # None

\* C1: with warning <= critical, analyze_metric returns SAFE below the warning
\* threshold, WARNING from the warning threshold up to but excluding the
\* critical one, and THREAT from the critical threshold on (both boundaries
\* inclusive).
AnalyzeMetricThresholds ==
    (am_result # None /\ am_args.warning_val <= am_args.critical_val) =>
        am_result.status =
            Classify(am_args.value, am_args.warning_val, am_args.critical_val)

AnalyzeMetricBoundaryWitness ==
    /\ am_result # None
    /\ am_args.warning_val < am_args.critical_val
    /\ am_args.value = am_args.critical_val
    /\ am_result.status = "THREAT"

\* C2: every analysis holds exactly one kernel entry: kernel_stalls/THREAT when
\* dpc stalls >= 500000 (whatever the context switches), else kernel_ctx/WARNING
\* when context switches >= 1000000, else kernel_status/SAFE.
OneKernelEntry ==
    Analysed =>
        LET d == analysis_result.details
            present == DOMAIN d \cap KernelKeys
            k == current_metrics.kernel
        IN  /\ Cardinality(present) = 1
            /\ IF k.dpcs_stalls >= 500000
               THEN present = {"kernel_stalls"} /\ d.kernel_stalls.status = "THREAT"
               ELSE IF k.context_switches >= 1000000
               THEN present = {"kernel_ctx"} /\ d.kernel_ctx.status = "WARNING"
               ELSE present = {"kernel_status"} /\ d.kernel_status.status = "SAFE"

OneKernelEntryWitness ==
    /\ Analysed
    /\ current_metrics.kernel.dpcs_stalls = 500000
    /\ current_metrics.kernel.context_switches >= 1000000
    /\ DOMAIN analysis_result.details \cap KernelKeys = {"kernel_stalls"}

\* C3: the overall status is the maximum severity over the entries of the same
\* result (SAFE for no entries); CPU temp 95, usage 50, no GPU, dpcs 0, ctx 0
\* gives THREAT with entries exactly cpu_temp THREAT, cpu_usage SAFE,
\* kernel_status SAFE.
IsExampleSample(m) ==
    /\ m.cpu.temperature = 95
    /\ m.cpu.usage_percent = 50
    /\ m.gpu = None
    /\ m.kernel.dpcs_stalls = 0
    /\ m.kernel.context_switches = 0

OverallIsMaxSeverity ==
    /\ OverallStatus(<< >>) = "SAFE"
    /\ Analysed =>
        LET d == analysis_result.details
            overall == analysis_result.status
        IN  /\ \A key \in DOMAIN d : Severity(d[key].status) <= Severity(overall)
            /\ \/ \E key \in DOMAIN d : d[key].status = overall
               \/ DOMAIN d = {} /\ overall = "SAFE"
            /\ IsExampleSample(current_metrics) =>
                  /\ overall = "THREAT"
                  /\ [key \in DOMAIN d |-> d[key].status] =
                        [cpu_temp |-> "THREAT", cpu_usage |-> "SAFE",
                         kernel_status |-> "SAFE"]

OverallExampleWitness ==
    /\ Analysed
    /\ IsExampleSample(current_metrics)
    /\ analysis_result.status = "THREAT"

\* C4: without a GPU the analysis has neither gpu_temp nor gpu_usage; with a
\* GPU it has both, classified with 80/90 (temperature) and 80/95 (usage).
GpuEntriesOnlyWithGpu ==
    Analysed =>
        LET d == analysis_result.details
            gpu == current_metrics.gpu
        IN  IF gpu = None
            THEN DOMAIN d \cap GpuKeys = {}
            ELSE /\ GpuKeys \subseteq DOMAIN d
                 /\ d.gpu_temp.status = Classify(gpu.temp, 80, 90)
                 /\ d.gpu_usage.status = Classify(gpu.usage, 80, 95)

NoGpuWitness ==
    /\ Analysed
    /\ current_metrics.gpu = None
    /\ DOMAIN analysis_result.details \cap GpuKeys = {}
    /\ DOMAIN analysis_result.details # {}

\* C5: the loop is not gated by session state: whatever active_sessions holds,
\* the loop at its top can run a cycle, a cycle that did not fail has emitted
\* its record, and a start_session or stop_session call changes nothing of the
\* loop.
LoopNotGatedBySessions ==
    /\ [](pc = "top" => ENABLED CycleFetchAnalyze)
    /\ [](pc = "emit" => /\ full_data = FullData(current_metrics, analysis_result)
                         /\ ENABLED EmitReturns)
    /\ []((pc = "sleep" /\ ~cycle_error) => (emitted # None /\ emitted = full_data))
    /\ [][active_sessions' # active_sessions => UNCHANGED loopVars]_vars

AllStoppedBroadcastWitness ==
    /\ DOMAIN active_sessions = Users
    /\ \A u \in Users : ~active_sessions[u]
    /\ pc = "sleep"
    /\ emitted # None

\* C6: an exception in a cycle is caught: nothing is broadcast by the handler,
\* the loop goes to its sleep, never terminates, and runs a next cycle.
RunningPositions == {"not_started", "top", "emit", "sleep"}

LoopSurvivesFailure ==
    /\ [](pc \in RunningPositions)
    /\ [](cycle_error => (pc = "sleep" /\ emitted = None))
    /\ [][(cycle_error' /\ ~cycle_error) => (pc' = "sleep" /\ emitted' = emitted)]_vars
    /\ []<>(pc = "top")

FailedCycleWitness ==
    /\ cycle_error
    /\ pc = "sleep"
    /\ host # None
    /\ current_metrics # None

\* C9: a failing or absent GPU query gives gpu = None, an unreadable
\* temperature gives CPU temperature 0, and in both cases the complete sample
\* is returned: an exception leaves get_system_metrics only when one of the
\* unguarded calls (cpu_percent, cpu_stats, pids) raised.
GpuUnavailable(h) ==
    \/ h.gpus = Exception
    \/ h.gpus # Exception /\ Len(h.gpus.value) = 0

TempUnreadable(h) ==
    \/ h.sensors = Exception
    \/ /\ h.sensors # Exception
       /\ "coretemp" \in DOMAIN h.sensors.value
       /\ Len(h.sensors.value.coretemp) = 0
    \/ /\ h.sensors # Exception
       /\ "coretemp" \notin DOMAIN h.sensors.value
       /\ \/ h.thermal \in {NotQueried, Exception}
          \/ Len(h.thermal.value) = 0

RequiredCallRaised(h) ==
    Exception \in {h.cpu_percent, h.cpu_stats, h.pids}

OptionalHardwareNeverEscapes ==
    host # None =>
        /\ current_metrics = None => RequiredCallRaised(host)
        /\ current_metrics # None =>
              /\ DOMAIN current_metrics = {"timestamp", "cpu", "gpu", "kernel"}
              /\ GpuUnavailable(host) => current_metrics.gpu = None
              /\ TempUnreadable(host) => current_metrics.cpu.temperature = 0

GpuQueryRaisedWitness ==
    /\ host # None
    /\ host.gpus = Exception
    /\ host.sensors = Exception
    /\ current_metrics # None
    /\ current_metrics.gpu = None
    /\ current_metrics.cpu.temperature = 0

\* C10 as stated: every emitted record uses the field names of the data model
\* (temperature_celsius, gpu usage_percent, dpc_stalls, process_count, and an
\* analysis that maps the entry keys and carries overall_status).
RecordUsesDataModelNames ==
    emitted # None =>
        LET m == emitted.metrics
            a == emitted.analysis
        IN  /\ DOMAIN emitted = {"metrics", "analysis"}
            /\ DOMAIN m = {"timestamp", "cpu", "gpu", "kernel"}
            /\ DOMAIN m.cpu = {"usage_percent", "temperature_celsius"}
            /\ m.gpu # None =>
                  DOMAIN m.gpu = {"name", "usage_percent", "temperature_celsius"}
            /\ DOMAIN m.kernel = {"context_switches", "interrupts", "dpc_stalls",
                                  "process_count"}
            /\ "overall_status" \in DOMAIN a
            /\ DOMAIN a \subseteq EntryKeys \cup {"overall_status"}

\* C10 amended: every emitted record is {metrics, analysis}; metrics has
\* timestamp, cpu{usage_percent, temperature}, gpu (None or {name, usage,
\* temp}) and kernel{context_switches, interrupts, dpcs_stalls, processes};
\* analysis is {status, details}, details maps entry keys to {status, message}
\* and status is the overall status derived from them.
RecordUsesCodeNames ==
    emitted # None =>
        LET m == emitted.metrics
            a == emitted.analysis
        IN  /\ DOMAIN emitted = {"metrics", "analysis"}
            /\ DOMAIN m = {"timestamp", "cpu", "gpu", "kernel"}
            /\ DOMAIN m.cpu = {"usage_percent", "temperature"}
            /\ m.gpu # None => DOMAIN m.gpu = {"name", "usage", "temp"}
            /\ DOMAIN m.kernel = {"context_switches", "interrupts", "dpcs_stalls",
                                  "processes"}
            /\ DOMAIN a = {"status", "details"}
            /\ DOMAIN a.details \subseteq EntryKeys
            /\ \A key \in DOMAIN a.details :
                  DOMAIN a.details[key] = {"status", "message"}
            /\ a.status \in {"SAFE", "WARNING", "THREAT"}
            /\ \A key \in DOMAIN a.details :
                  Severity(a.details[key].status) <= Severity(a.status)

EmittedWithGpuWitness ==
    /\ emitted # None
    /\ emitted.metrics.gpu # None
    /\ "gpu_temp" \in DOMAIN emitted.analysis.details

\* C11: on a host whose dpc-stall and context-switch counters never decrease,
\* the counters of a cycle's record carry into every later cycle, so once dpc
\* stalls reached 500000 every later broadcast record has overall status
\* THREAT, and once context switches reached 1000000 every later broadcast
\* record has overall status WARNING or THREAT, never SAFE.
KernelSeverityIsPermanent ==
    /\ [][/\ prev_kernel'.soft_interrupts >= prev_kernel.soft_interrupts
          /\ prev_kernel'.ctx_switches >= prev_kernel.ctx_switches]_vars
    /\ [][(full_data # None /\ pc = "sleep" /\ pc' = "top") =>
            /\ prev_kernel'.soft_interrupts >= full_data.metrics.kernel.dpcs_stalls
            /\ prev_kernel'.ctx_switches >=
                  full_data.metrics.kernel.context_switches]_vars
    /\ [](emitted # None =>
            /\ prev_kernel.soft_interrupts >= 500000 =>
                  emitted.analysis.status = "THREAT"
            /\ prev_kernel.ctx_switches >= 1000000 =>
                  emitted.analysis.status \in {"WARNING", "THREAT"})

LaterRecordStillThreatWitness ==
    /\ emitted # None
    /\ prev_kernel.soft_interrupts >= 500000
    /\ emitted.metrics.gpu = None
    /\ emitted.analysis.details.cpu_temp.status = "SAFE"
    /\ emitted.analysis.details.cpu_usage.status = "SAFE"
    /\ emitted.analysis.status = "THREAT"

====
